---- MODULE Spec2Model ----
(***************************************************************************)
(* Model of src/src/core.cpp (Tox Qt GUI, class Core).                     *)
(*                                                                         *)
(* Two specifications share the module:                                    *)
(*   SpecChunk  - Core::sendMessage, one loop iteration per step, over     *)
(*                every valid UTF-8 text up to MaxCodepoints codepoints    *)
(*                and every frame limit in FrameLimits;                    *)
(*   Spec       - the session: constructor, start, the tick, the settings  *)
(*                notification, the public slots and the destructor.       *)
(* Byte positions are 0-based as in the C++ code; At(bytes, i) reads the   *)
(* byte at 0-based position i.                                             *)
(***************************************************************************)
EXTENDS Integers, Sequences, FiniteSets, TLC

(***************************************************************************)
(* Bounds of the model.                                                    *)
(***************************************************************************)
\* longest text, in codepoints, given to sendMessage
MaxCodepoints == 6
\* chunks recorded for one sendMessage call (stops a loop that makes no progress)
MaxChunks == 8
\* friends the engine holds
MaxFriends == 2
\* engine handles tox_new returns in one run
MaxEngines == 2
\* entries of the bootstrap server list
MaxServers == 1
\* notifications the engine delivers inside one tox_do
MaxNotifications == 1
\* blocks the blob of tox_save is written in
BlobBlocks == 2
\* TOX_CLIENT_ID_SIZE, the bytes of a client id (32 in tox.h)
TOX_CLIENT_ID_SIZE == 1

\* the values TOX_MAX_MESSAGE_LENGTH takes in the model (the code takes it from tox.h)
FrameLimits == {4, 5, 8, 12}

VARIABLES
    \* ---- Core::sendMessage ----
    TOX_MAX_MESSAGE_LENGTH, \* the frame limit M
    byteArray,              \* message.toUtf8(), a sequence of bytes 0..255
    messageOffset,          \* int messageOffset
    absoluteMaxLength,      \* int absoluteMaxLength
    sent,                   \* tox_send_message / messageSentResult calls so far:
                            \* [tox, offset, length]
    pc,                     \* "idle": in the event loop; "loop": in sendMessage's loop;
                            \* "done": a handler has just returned
    \* ---- the session ----
    tox,                    \* Tox* tox: nullptr or the handle tox_new returned
    engines,                \* the handles tox_new returned and tox_kill has not yet taken
    created,                \* how many handles tox_new has returned so far
    registered,             \* the handles the callbacks are registered on
    friendCount,            \* the number of friends the engine behind tox holds
    isConnected,            \* static bool isConnected of checkConnection
    timerActive,            \* the single-shot QTimer is armed
    configFile,             \* data.tox on disk: [exists, size, friends]
    saveFile,               \* the QSaveFile of saveConfiguration: [open, written, error]
    op,                     \* the handler that ran last, with its inputs
    trace,                  \* what that handler did: engine calls, emitted signals, timer starts
    crashed,                \* the process died in an engine call on a null handle
    destroyed               \* ~Core has run

chunkVars == <<TOX_MAX_MESSAGE_LENGTH, byteArray, messageOffset, absoluteMaxLength, sent, pc>>

sessionVars == <<tox, engines, created, registered, friendCount, isConnected, timerActive,
                 configFile, saveFile, op, trace, crashed, destroyed>>

vars == <<TOX_MAX_MESSAGE_LENGTH, byteArray, messageOffset, absoluteMaxLength, sent, pc,
          tox, engines, created, registered, friendCount, isConnected, timerActive,
          configFile, saveFile, op, trace, crashed, destroyed>>

(***************************************************************************)
(* UTF-8 input texts: concatenations of encoded codepoints.                *)
(***************************************************************************)
\* "a", " ", U+00E9 (2 bytes), U+20AC (3 bytes), U+1F600 (4 bytes)
Codepoints == {<<97>>, <<32>>, <<195, 169>>, <<226, 130, 172>>, <<240, 159, 152, 128>>}

\* the texts of at most k codepoints more than those of frontier
RECURSIVE Grow(_, _, _)
Grow(all, frontier, k) ==
    IF k = 0 THEN all
    ELSE LET next == {t \o c : t \in frontier, c \in Codepoints}
         IN  Grow(all \cup next, next, k - 1)

\* QString::toUtf8 of every text of the model: every valid UTF-8 byte string of at
\* most MaxCodepoints codepoints over Codepoints
Utf8Texts == Grow({<<>>}, {<<>>}, MaxCodepoints)

\* Tox* tox = nullptr
nullptr == 0

\* no QSaveFile is open: saveConfiguration is not running, or has returned
NoSaveFile == [open |-> FALSE, written |-> 0, error |-> FALSE]

At(bytes, i) == bytes[i + 1]

\* bytes [from, to) of a byte array
Range(bytes, from, to) == SubSeq(bytes, from + 1, to)

(***************************************************************************)
(* Core::sendMessage                                                       *)
(***************************************************************************)
multibyteCodepoint == 128
multibyteCodepointStart == 64

\* (b & mask) != 0 for a one-bit mask
Masked(b, mask) == (b \div mask) % 2 = 1

\* " .,-"
splitOn == {32, 46, 44, 45}

\* mutant: the walk begins at the byte after the frame candidate
AbsoluteMaxPositionFull(absMaxLength) == absMaxLength

\* mutant: the candidate's last byte taken one position too early
AbsoluteMaxPositionShort(absMaxLength) == absMaxLength - 2

\* int absoluteMaxPosition = absoluteMaxLength - 1
AbsoluteMaxPosition(absMaxLength) == absMaxLength - 1

\* mutant: a text of exactly the frame limit is split too
NeedsSplitAtLimit(size, absMaxLength) == size >= absMaxLength

\* while (byteArray.size() > absoluteMaxLength)
NeedsSplit(size, absMaxLength) == size > absMaxLength

\* the first for loop: walk back from absoluteMaxPosition over at most 4 bytes
RECURSIVE CodepointWalk(_, _, _)
CodepointWalk(bytes, i, absoluteMaxPosition) ==
    IF ~(i > absoluteMaxPosition - 4) THEN -1
    ELSE IF Masked(At(bytes, i), multibyteCodepoint)
            /\ ~Masked(At(bytes, i), multibyteCodepointStart)
         THEN CodepointWalk(bytes, i - 1, absoluteMaxPosition)
         ELSE i

\* mutant: the cut taken at the byte limit without looking for a codepoint start
LastCodepointStartNoWalk(bytes, absoluteMaxPosition) == absoluteMaxPosition

LastCodepointStart(bytes, absoluteMaxPosition) ==
    CodepointWalk(bytes, absoluteMaxPosition, absoluteMaxPosition)

\* mutant: the split character is left to the next chunk
RECURSIVE SplitWalkBeforeChar(_, _, _, _)
SplitWalkBeforeChar(bytes, i, absoluteMaxPosition, M) ==
    IF ~(i > absoluteMaxPosition - M \div 4) THEN -1
    ELSE IF Masked(At(bytes, i), multibyteCodepoint)
         THEN SplitWalkBeforeChar(bytes, i - 1, absoluteMaxPosition, M)
         ELSE IF At(bytes, i) \in splitOn
              THEN i
              ELSE SplitWalkBeforeChar(bytes, i - 1, absoluteMaxPosition, M)

\* the second for loop: walk back from lastCodepointStart looking for a split character
RECURSIVE SplitWalk(_, _, _, _)
SplitWalk(bytes, i, absoluteMaxPosition, M) ==
    IF ~(i > absoluteMaxPosition - M \div 4) THEN -1
    ELSE IF Masked(At(bytes, i), multibyteCodepoint)
         THEN SplitWalk(bytes, i - 1, absoluteMaxPosition, M)
         ELSE IF At(bytes, i) \in splitOn
              THEN i + 1
              ELSE SplitWalk(bytes, i - 1, absoluteMaxPosition, M)

\* splitPosition after the label found: and the fallback of line 175
SplitPosition(bytes, offset, absMaxLength, M) ==
    LET absoluteMaxPosition == AbsoluteMaxPosition(absMaxLength)
        lastCodepointStart == LastCodepointStart(bytes, absoluteMaxPosition)
        splitPosition == SplitWalk(bytes, lastCodepointStart, absoluteMaxPosition, M)
    IN  IF splitPosition <= offset \/ splitPosition > absMaxLength
        THEN lastCodepointStart
        ELSE splitPosition

\* mutant: the byte before the split position is not sent
ChunkLengthShort(offset, splitPosition) == splitPosition - offset - 1

\* the length given to tox_send_message and QString::fromUtf8
ChunkLength(offset, splitPosition) == splitPosition - offset

\* one iteration of the while loop
SplitChunk ==
    /\ pc = "loop"
    /\ ~crashed
    /\ NeedsSplit(Len(byteArray), absoluteMaxLength)
    /\ Len(sent) < MaxChunks
    /\ LET splitPosition ==
               SplitPosition(byteArray, messageOffset, absoluteMaxLength, TOX_MAX_MESSAGE_LENGTH)
       IN  /\ sent' = Append(sent, [tox |-> tox, offset |-> messageOffset,
                                    length |-> ChunkLength(messageOffset, splitPosition)])
           /\ messageOffset' = splitPosition
           /\ absoluteMaxLength' = TOX_MAX_MESSAGE_LENGTH + splitPosition
    /\ crashed' \in (IF tox = nullptr THEN BOOLEAN ELSE {FALSE})
    /\ UNCHANGED <<TOX_MAX_MESSAGE_LENGTH, byteArray, pc>>
    /\ UNCHANGED <<tox, engines, created, registered, friendCount, isConnected, timerActive,
                   configFile, saveFile, op, trace, destroyed>>

\* after the loop: send what is left, if anything, and return
SendRemainder ==
    /\ pc = "loop"
    /\ ~crashed
    /\ ~NeedsSplit(Len(byteArray), absoluteMaxLength)
    /\ sent' = IF Len(byteArray) - messageOffset > 0
               THEN Append(sent, [tox |-> tox, offset |-> messageOffset,
                                  length |-> ChunkLength(messageOffset, Len(byteArray))])
               ELSE sent
    /\ crashed' \in (IF tox = nullptr /\ Len(byteArray) - messageOffset > 0
                     THEN BOOLEAN ELSE {FALSE})
    /\ pc' = "done"
    /\ UNCHANGED <<TOX_MAX_MESSAGE_LENGTH, byteArray, messageOffset, absoluteMaxLength>>
    /\ UNCHANGED <<tox, engines, created, registered, friendCount, isConnected, timerActive,
                   configFile, saveFile, op, trace, destroyed>>

\* sendMessage entered with any text and any frame limit
InitChunk ==
    /\ TOX_MAX_MESSAGE_LENGTH \in FrameLimits
    /\ byteArray \in Utf8Texts
    /\ messageOffset = 0
    /\ absoluteMaxLength = TOX_MAX_MESSAGE_LENGTH
    /\ sent = <<>>
    /\ pc = "loop"
    \* on a running session
    /\ tox = 1
    /\ engines = {1}
    /\ created = 1
    /\ registered = {1}
    /\ friendCount = 1
    /\ isConnected = TRUE
    /\ timerActive = TRUE
    /\ configFile = [exists |-> FALSE, size |-> 0, friends |-> 0]
    /\ saveFile = NoSaveFile
    /\ op = [name |-> "sendMessage", friend |-> 0]
    /\ trace = <<>>
    /\ crashed = FALSE
    /\ destroyed = FALSE

NextChunk == SplitChunk \/ SendRemainder

SpecChunk == InitChunk /\ [][NextChunk]_vars

(***************************************************************************)
(* The session: what a handler does is recorded in trace, entry by entry.  *)
(***************************************************************************)
\* an engine primitive called on handle h
Call(name, h, friend, arg) ==
    [kind |-> "call", name |-> name, tox |-> h, friend |-> friend, arg |-> arg]

\* tox_new(&options): arg is the transport asked for, tox the handle returned
New(h, arg) == [kind |-> "new", name |-> "tox_new", tox |-> h, friend |-> -1, arg |-> arg]

\* emit name(friend, arg)
Emit(name, friend, arg) ==
    [kind |-> "emit", name |-> name, tox |-> -1, friend |-> friend, arg |-> arg]

\* timer->start(interval)
TimerStart == [kind |-> "timer", name |-> "start", tox |-> -1, friend |-> -1, arg |-> ""]

\* QSaveFile::write / QSaveFile::commit
File(name) == [kind |-> "file", name |-> name, tox |-> -1, friend |-> -1, arg |-> ""]

RECURSIVE Flatten(_)
Flatten(ss) == IF ss = <<>> THEN <<>> ELSE Head(ss) \o Flatten(Tail(ss))

\* an engine primitive was called on a null handle: undefined behaviour
NullCalled(tr) == \E i \in 1 .. Len(tr) : tr[i].kind = "call" /\ tr[i].tox = nullptr

\* what the handler did before the process died in its first call on a null handle
UpToNullCall(tr) ==
    SubSeq(tr, 1, CHOOSE i \in 1 .. Len(tr) :
                      /\ tr[i].kind = "call" /\ tr[i].tox = nullptr
                      /\ \A j \in 1 .. i - 1 : ~(tr[j].kind = "call" /\ tr[j].tox = nullptr))

\* data.tox as found on disk
ConfigFiles ==
    {[exists |-> FALSE, size |-> 0, friends |-> 0], [exists |-> TRUE, size |-> 0, friends |-> 0]}
        \cup {[exists |-> TRUE, size |-> 1, friends |-> n] : n \in 0 .. MaxFriends}

\* what the engine answers about one friend in loadFriends
FriendAnswers ==
    {a \in [clientIdOk : BOOLEAN, name : {"absent", "loaded", "failed"},
            status : {"absent", "loaded", "failed"}, lastOnline : {0, 1}] :
        ~a.clientIdOk => (a.name = "absent" /\ a.status = "absent" /\ a.lastOnline = 0)}

\* Core::checkLastOnline
checkLastOnline(h, friendId, lastOnline) ==
    <<Call("tox_get_last_online", h, friendId, "")>>
        \o (IF lastOnline > 0 THEN <<Emit("friendLastSeenChanged", friendId, "")>> ELSE <<>>)

\* mutant: the status message is reported before the name, and a zero last-seen is reported
LoadFriendSwapped(h, id, a) ==
    <<Call("tox_get_client_id", h, id, "")>>
        \o (IF a.clientIdOk
            THEN <<Emit("friendAdded", id, "")>>
                 \o (IF a.status = "loaded"
                     THEN <<Emit("friendStatusMessageLoaded", id, "")>> ELSE <<>>)
                 \o (IF a.name = "loaded"
                     THEN <<Emit("friendUsernameLoaded", id, "")>> ELSE <<>>)
                 \o checkLastOnline(h, id, a.lastOnline)
            ELSE <<>>)

\* the body of the for loop of Core::loadFriends, for the friend ids[i]
LoadFriend(h, id, a) ==
    <<Call("tox_get_client_id", h, id, "")>>
        \o (IF a.clientIdOk
            THEN <<Emit("friendAdded", id, ""), Call("tox_get_name_size", h, id, "")>>
                 \o (IF a.name # "absent"
                     THEN <<Call("tox_get_name", h, id, "")>>
                          \o (IF a.name = "loaded"
                              THEN <<Emit("friendUsernameLoaded", id, "")>> ELSE <<>>)
                     ELSE <<>>)
                 \o <<Call("tox_get_status_message_size", h, id, "")>>
                 \o (IF a.status # "absent"
                     THEN <<Call("tox_get_status_message", h, id, "")>>
                          \o (IF a.status = "loaded"
                              THEN <<Emit("friendStatusMessageLoaded", id, "")>> ELSE <<>>)
                     ELSE <<>>)
                 \o checkLastOnline(h, id, a.lastOnline)
            ELSE <<>>)

\* Core::loadFriends: answers[i] is what the engine says about the friend ids[i-1] = i-1
loadFriends(h, answers) ==
    <<Call("tox_count_friendlist", h, -1, "")>>
        \o (IF Len(answers) > 0
            THEN <<Call("tox_get_friendlist", h, -1, "")>>
                 \o Flatten([i \in 1 .. Len(answers) |-> LoadFriend(h, i - 1, answers[i])])
            ELSE <<>>)

\* the engine holds the file's friends after loadConfiguration read a non-empty file
LoadedFriends(file, openOk) ==
    IF file.exists /\ openOk /\ file.size > 0 THEN file.friends ELSE 0

\* mutant: the friends are loaded even if there is no configuration file
loadConfigurationSyncAlways(h, file, openOk, answers) ==
    (IF file.exists /\ openOk /\ file.size > 0 THEN <<Call("tox_load", h, -1, "")>> ELSE <<>>)
        \o loadFriends(h, answers)

\* Core::loadConfiguration
loadConfiguration(h, file, openOk, answers) ==
    IF ~file.exists THEN <<>>
    ELSE IF ~openOk THEN <<>>
    ELSE (IF file.size > 0 THEN <<Call("tox_load", h, -1, "")>> ELSE <<>>)
         \o loadFriends(h, answers)

\* Core::bootstrapDht with a server list of n entries
bootstrapDht(h, n) == [i \in 1 .. n |-> Call("tox_bootstrap_from_address", h, -1, "")]

\* the eight tox_callback_* registrations of Core::start
RegisterCallbacks(h) ==
    <<Call("tox_callback_friend_request", h, -1, ""),
      Call("tox_callback_friend_message", h, -1, ""),
      Call("tox_callback_friend_action", h, -1, ""),
      Call("tox_callback_name_change", h, -1, ""),
      Call("tox_callback_typing_change", h, -1, ""),
      Call("tox_callback_status_message", h, -1, ""),
      Call("tox_callback_user_status", h, -1, ""),
      Call("tox_callback_connection_status", h, -1, "")>>

\* mutant: the second attempt is made whatever the settings say
RetryAlways(ipv6, fallback) == TRUE

\* settings.isIPv6Enabled() && settings.isIPv4FallbackEnabled()
RetryAllowed(ipv6, fallback) == ipv6 /\ fallback

Transport(ipv6) == IF ipv6 THEN "ipv6" ELSE "ipv4"

\* the tox_new calls of Core::start: r1, r2 say whether the first and the second succeed
NewAttempts(ipv6, fallback, r1, r2) ==
    <<New(IF r1 THEN created + 1 ELSE nullptr, Transport(ipv6))>>
        \o (IF ~r1 /\ RetryAllowed(ipv6, fallback)
            THEN <<New(IF r2 THEN created + 1 ELSE nullptr, Transport(FALSE))>>
            ELSE <<>>)

\* the handle Core::start ends up with
StartedHandle(news) == news[Len(news)].tox

\* mutant: failedToStart is emitted and start goes on
StartTraceNoReturn(news, file, openOk, answers, servers) ==
    LET h == StartedHandle(news)
    IN  news
        \o (IF h = nullptr THEN <<Emit("failedToStart", -1, "")>> ELSE <<>>)
        \o loadConfiguration(h, file, openOk, answers)
        \o RegisterCallbacks(h)
        \o <<Call("tox_get_address", h, -1, ""), Emit("friendAddressGenerated", -1, ""),
             Call("tox_set_name", h, -1, ""), Call("tox_set_status_message", h, -1, "")>>
        \o bootstrapDht(h, servers)
        \o <<Call("tox_do_interval", h, -1, ""), TimerStart>>

\* mutant: the callbacks are registered before the configuration is loaded
StartTraceCallbacksFirst(news, file, openOk, answers, servers) ==
    LET h == StartedHandle(news)
    IN  IF h = nullptr
        THEN news \o <<Emit("failedToStart", -1, "")>>
        ELSE news
             \o RegisterCallbacks(h)
             \o loadConfiguration(h, file, openOk, answers)
             \o <<Call("tox_get_address", h, -1, ""), Emit("friendAddressGenerated", -1, ""),
                  Call("tox_set_name", h, -1, ""), Call("tox_set_status_message", h, -1, "")>>
             \o bootstrapDht(h, servers)
             \o <<Call("tox_do_interval", h, -1, ""), TimerStart>>

\* what Core::start does
StartTrace(news, file, openOk, answers, servers) ==
    LET h == StartedHandle(news)
    IN  IF h = nullptr
        THEN news \o <<Emit("failedToStart", -1, "")>>
        ELSE news
             \o loadConfiguration(h, file, openOk, answers)
             \o RegisterCallbacks(h)
             \o <<Call("tox_get_address", h, -1, ""), Emit("friendAddressGenerated", -1, ""),
                  Call("tox_set_name", h, -1, ""), Call("tox_set_status_message", h, -1, "")>>
             \o bootstrapDht(h, servers)
             \o <<Call("tox_do_interval", h, -1, ""), TimerStart>>

\* the handles of the callback registrations in a trace
RegisteredIn(tr) ==
    {tr[i].tox : i \in {j \in 1 .. Len(tr) :
                           tr[j].kind = "call" /\ tr[j].name = "tox_callback_friend_request"}}

TimerStartedIn(tr) == \E i \in 1 .. Len(tr) : tr[i].kind = "timer"

\* a handler that is not sendMessage runs and returns: opRecord names it and its inputs,
\* tr is what it does
Returns(opRecord, tr) ==
    /\ op' = opRecord
    /\ crashed' \in (IF NullCalled(tr) THEN BOOLEAN ELSE {FALSE})
    /\ trace' = IF crashed' THEN UpToNullCall(tr) ELSE tr
    /\ pc' = "done"
    /\ UNCHANGED <<TOX_MAX_MESSAGE_LENGTH, byteArray, messageOffset, absoluteMaxLength, sent>>

\* the event loop can run a handler: the object lives and no handler is running
Idle == ~destroyed /\ ~crashed /\ pc = "idle"

\* control is back in the Qt event loop, which calls the slots connected in Core::Core and
\* the public slots one at a time: the record of the handler that returned is dropped
EventLoop ==
    /\ pc = "done"
    /\ ~destroyed
    /\ ~crashed
    /\ pc' = "idle"
    /\ op' = [name |-> "none"]
    /\ trace' = <<>>
    /\ sent' = <<>>
    /\ byteArray' = <<>>
    /\ messageOffset' = 0
    /\ absoluteMaxLength' = 0
    /\ UNCHANGED <<TOX_MAX_MESSAGE_LENGTH, tox, engines, created, registered, friendCount,
                   isConnected, timerActive, configFile, saveFile, crashed, destroyed>>

\* Core::start
Start ==
    /\ Idle
    /\ created < MaxEngines
    /\ \E ipv6, fallback, r1, r2, openOk \in BOOLEAN, servers \in 0 .. MaxServers :
          LET news == NewAttempts(ipv6, fallback, r1, r2)
              h == StartedHandle(news)
              loaded == IF h = nullptr THEN 0 ELSE LoadedFriends(configFile, openOk)
              asked == IF h # nullptr /\ configFile.exists /\ openOk THEN loaded ELSE 0
          IN  \* inputs that are not read take one value
              /\ Len(news) = 1 => ~r2
              /\ (h = nullptr \/ ~configFile.exists) => openOk
              /\ h = nullptr => servers = 0
              /\ \E answers \in [1 .. asked -> FriendAnswers] :
                    LET tr == StartTrace(news, configFile, openOk, answers, servers)
                    IN  /\ tox' = h
                        /\ created' = IF h = nullptr THEN created ELSE created + 1
                        /\ engines' = IF h = nullptr THEN engines ELSE engines \cup {h}
                        /\ registered' = registered \cup RegisteredIn(tr)
                        /\ friendCount' = loaded
                        /\ timerActive' = (timerActive \/ TimerStartedIn(tr))
                        /\ Returns([name |-> "start", ipv6 |-> ipv6, fallback |-> fallback,
                                    openOk |-> openOk, answers |-> answers,
                                    servers |-> servers], tr)
    /\ UNCHANGED <<isConnected, configFile, saveFile, destroyed>>

\* Core::bootstrapDht as the slot of Settings::dhtServerListChanged (connected in Core::Core)
DhtServerListChanged ==
    /\ Idle
    /\ \E servers \in 0 .. MaxServers :
          Returns([name |-> "bootstrapDht", servers |-> servers], bootstrapDht(tox, servers))
    /\ UNCHANGED <<tox, engines, created, registered, friendCount, isConnected, timerActive,
                   configFile, saveFile, destroyed>>

(***************************************************************************)
(* The tick: Core::process, with the callbacks the engine runs in tox_do.  *)
(***************************************************************************)
\* the notifications the engine can deliver about its friends 0 .. n-1
Notifications(n) ==
    {[kind |-> "friendRequest", friend |-> -1, value |-> 0, lastOnline |-> 0]}
        \cup [kind : {"friendMessage", "nameChange", "statusMessage", "action"},
              friend : 0 .. n - 1, value : {0}, lastOnline : {0}]
        \cup [kind : {"typing"}, friend : 0 .. n - 1, value : {0, 1}, lastOnline : {0}]
        \cup [kind : {"userStatus"}, friend : 0 .. n - 1, value : 0 .. 3, lastOnline : {0}]
        \cup [kind : {"connectionStatus"}, friend : 0 .. n - 1, value : {1}, lastOnline : {0}]
        \cup [kind : {"connectionStatus"}, friend : 0 .. n - 1, value : {0}, lastOnline : {0, 1}]

NotificationBatches(n) == UNION {[1 .. k -> Notifications(n)] : k \in 0 .. MaxNotifications}

\* Core::onUserStatusChanged: TOX_USERSTATUS_NONE, _AWAY, _BUSY, anything else
UserStatus(userstatus) ==
    IF userstatus = 0 THEN "Online"
    ELSE IF userstatus = 1 THEN "Away"
    ELSE IF userstatus = 2 THEN "Busy"
    ELSE "Online"

\* the static callbacks Core::onFriendRequest .. Core::onAction; h is the core's tox
Callback(h, n) ==
    IF n.kind = "friendRequest" THEN <<Emit("friendRequestReceived", -1, "")>>
    ELSE IF n.kind = "friendMessage" THEN <<Emit("friendMessageReceived", n.friend, "")>>
    ELSE IF n.kind = "nameChange" THEN <<Emit("friendUsernameChanged", n.friend, "")>>
    ELSE IF n.kind = "typing"
         THEN <<Emit("friendTypingChanged", n.friend, IF n.value # 0 THEN "true" ELSE "false")>>
    ELSE IF n.kind = "statusMessage"
         THEN <<Emit("friendStatusMessageChanged", n.friend, "")>>
    ELSE IF n.kind = "userStatus"
         THEN <<Emit("friendStatusChanged", n.friend, UserStatus(n.value))>>
    ELSE IF n.kind = "connectionStatus"
         THEN <<Emit("friendStatusChanged", n.friend,
                     IF n.value # 0 THEN "Online" ELSE "Offline")>>
              \o (IF n.value = 0 THEN checkLastOnline(h, n.friend, n.lastOnline) ELSE <<>>)
    ELSE <<Emit("actionReceived", n.friend, "")>>

\* mutant: level-triggered, connected is emitted on every tick that finds the engine connected
CheckConnectionLevel(h, c, was) ==
    <<Call("tox_isconnected", h, -1, "")>>
        \o (IF c
            THEN <<Emit("connected", -1, "")>>
            ELSE <<Call("tox_isconnected", h, -1, ""), Emit("disconnected", -1, "")>>)

\* mutant: going offline looks up the last-seen time of every friend
CheckConnectionRefreshing(h, c, was) ==
    <<Call("tox_isconnected", h, -1, "")>>
        \o (IF c /\ ~was
            THEN <<Emit("connected", -1, "")>>
            ELSE <<Call("tox_isconnected", h, -1, "")>>
                 \o (IF ~c /\ was
                     THEN <<Emit("disconnected", -1, "")>>
                          \o [f \in 1 .. friendCount |->
                                 Call("tox_get_last_online", h, f - 1, "")]
                     ELSE <<>>))

\* Core::checkConnection: c is what tox_isconnected answers, was is the static isConnected
CheckConnection(h, c, was) ==
    <<Call("tox_isconnected", h, -1, "")>>
        \o (IF c /\ ~was
            THEN <<Emit("connected", -1, "")>>
            ELSE <<Call("tox_isconnected", h, -1, "")>>
                 \o (IF ~c /\ was THEN <<Emit("disconnected", -1, "")>> ELSE <<>>))

\* the static isConnected after Core::checkConnection
CheckConnectionState(c, was) ==
    IF c /\ ~was THEN TRUE
    ELSE IF ~c /\ was THEN FALSE
    ELSE was

\* mutant: the tick does not arm the timer again
ProcessTraceNoRearm(h, batch, c, was) ==
    <<Call("tox_do", h, -1, "")>>
        \o Flatten([i \in 1 .. Len(batch) |-> Callback(h, batch[i])])
        \o CheckConnection(h, c, was)
        \o <<Call("tox_do_interval", h, -1, "")>>

\* what Core::process does: batch is what the engine notifies inside tox_do, c what
\* tox_isconnected answers, was the static isConnected
ProcessTrace(h, batch, c, was) ==
    <<Call("tox_do", h, -1, "")>>
        \o Flatten([i \in 1 .. Len(batch) |-> Callback(h, batch[i])])
        \o CheckConnection(h, c, was)
        \o <<Call("tox_do_interval", h, -1, ""), TimerStart>>

\* Core::process, the slot of the timer's timeout
Process ==
    /\ Idle
    /\ timerActive
    /\ \E c \in BOOLEAN,
          batch \in (IF tox \in registered THEN NotificationBatches(friendCount) ELSE {<<>>}) :
          /\ Returns([name |-> "process", connected |-> c, was |-> isConnected,
                      batch |-> batch], ProcessTrace(tox, batch, c, isConnected))
          /\ isConnected' = IF crashed' THEN isConnected
                            ELSE CheckConnectionState(c, isConnected)
          \* the single-shot timer fired; it is armed again if process gets to its end
          /\ timerActive' = TimerStartedIn(trace')
    /\ UNCHANGED <<tox, engines, created, registered, friendCount, configFile, saveFile, destroyed>>

(***************************************************************************)
(* The public slots.                                                       *)
(***************************************************************************)
\* the characters of the identifiers given to the slots
Lower(c) == IF c = "A" THEN "a" ELSE IF c = "B" THEN "b" ELSE c

\* the value of a hexadecimal digit, -1 for any other character
HexValue(c) ==
    IF c = "0" THEN 0
    ELSE IF c = "1" THEN 1
    ELSE IF c = "a" THEN 10
    ELSE IF c = "b" THEN 11
    ELSE -1

\* QByteArray::fromHex(data.toLower().toLatin1()): characters that are no hexadecimal digits
\* are skipped, the digits left are paired from the end, a first digit left alone is a byte
fromString(data) ==
    LET lower == [i \in 1 .. Len(data) |-> Lower(data[i])]
        ds == SelectSeq(lower, LAMBDA c : HexValue(c) >= 0)
        n == Len(ds)
        k == (n + 1) \div 2
    IN  [i \in 1 .. k |->
            LET lo == n - 2 * (k - i)
            IN  (IF lo > 1 THEN 16 * HexValue(ds[lo - 1]) ELSE 0) + HexValue(ds[lo])]

\* Core::CData::CData: what the engine reads through data(), byteSize bytes of a buffer that
\* new uint8_t[byteSize] left uninitialized and memcpy filled with the decoded bytes; -1
\* stands for a byte that was never written
CData(data, byteSize) ==
    LET arr == fromString(data)
    IN  [i \in 1 .. byteSize |-> IF i <= Len(arr) THEN arr[i] ELSE -1]

\* the memcpy of Core::CData::fromString writes past the end of cData
Overflows(data, byteSize) == Len(fromString(data)) > byteSize

\* TOX_FRIEND_ADDRESS_SIZE: the client id, then nospam and checksum (scaled to one byte)
TOX_FRIEND_ADDRESS_SIZE == TOX_CLIENT_ID_SIZE + 1

\* n characters, c1 and c2 in turn
HexText(n, c1, c2) == [i \in 1 .. n |-> IF i % 2 = 1 THEN c1 ELSE c2]

\* the texts the add-friend slots are called with, for an identifier of size bytes: a well
\* formed one in mixed case, one a digit short, one with characters that are no digits, one
\* a byte too long, the empty one
IdTexts(size) ==
    {HexText(2 * size, "A", "b"), HexText(2 * size - 1, "a", "1"), HexText(2 * size, "g", "0"),
     HexText(2 * size + 2, "B", "0"), <<>>}

\* friendAddress.mid(0, TOX_CLIENT_ID_SIZE * 2)
Mid(text, n) == SubSeq(text, 1, IF Len(text) < n THEN Len(text) ELSE n)

\* the size of the identifier a slot decodes
IdSize(slot) ==
    IF slot = "acceptFriendRequest" THEN TOX_CLIENT_ID_SIZE ELSE TOX_FRIEND_ADDRESS_SIZE

\* what tox_add_friend_norequest (-1 or the friend's id) and tox_add_friend (an error code
\* below 0 or the friend's id) can return
AddFriendAnswers(slot) ==
    IF slot = "acceptFriendRequest" THEN {-1, friendCount} ELSE {-2, -1, friendCount}

\* mutant: requestFriendship reports the failure with the whole address it was given
AddFriendTraceWholeAddress(slot, h, text, friendId) ==
    <<Call(IF slot = "acceptFriendRequest" THEN "tox_add_friend_norequest" ELSE "tox_add_friend",
           h, -1, CData(text, IdSize(slot))),
      IF friendId < 0 THEN Emit("failedToAddFriend", -1, text)
      ELSE Emit("friendAdded", friendId, text)>>

\* Core::acceptFriendRequest(text) and Core::requestFriendship(text, message); friendId is
\* what the engine returns
AddFriendTrace(slot, h, text, friendId) ==
    IF slot = "acceptFriendRequest"
    THEN <<Call("tox_add_friend_norequest", h, -1, CData(text, TOX_CLIENT_ID_SIZE)),
           IF friendId = -1 THEN Emit("failedToAddFriend", -1, text)
           ELSE Emit("friendAdded", friendId, text)>>
    ELSE LET userId == Mid(text, TOX_CLIENT_ID_SIZE * 2)
         IN  <<Call("tox_add_friend", h, -1, CData(text, TOX_FRIEND_ADDRESS_SIZE)),
               IF friendId < 0 THEN Emit("failedToAddFriend", -1, userId)
               ELSE Emit("friendAdded", friendId, userId)>>

\* Core::acceptFriendRequest and Core::requestFriendship
AddFriend ==
    /\ Idle
    /\ \E slot \in {"acceptFriendRequest", "requestFriendship"} :
       \E text \in IdTexts(IdSize(slot)), friendId \in AddFriendAnswers(slot) :
          LET opRecord == [name |-> slot, text |-> text, friendId |-> friendId]
          IN  /\ friendId >= 0 => friendCount < MaxFriends
              /\ \/ Returns(opRecord, AddFriendTrace(slot, tox, text, friendId))
                 \* the memcpy past the end of cData ends the process
                 \/ /\ Overflows(text, IdSize(slot))
                    /\ op' = opRecord
                    /\ crashed' = TRUE
                    /\ trace' = <<>>
                    /\ pc' = "done"
                    /\ UNCHANGED <<TOX_MAX_MESSAGE_LENGTH, byteArray, messageOffset,
                                   absoluteMaxLength, sent>>
              /\ friendCount' = IF friendId >= 0 /\ tox # nullptr /\ ~crashed'
                                THEN friendCount + 1 ELSE friendCount
    /\ UNCHANGED <<tox, engines, created, registered, isConnected, timerActive, configFile,
                   saveFile, destroyed>>

\* Core::removeFriend(friendId); ok says tox_del_friend does not return -1
RemoveFriendTrace(h, friendId, ok) ==
    <<Call("tox_del_friend", h, friendId, ""),
      IF ok THEN Emit("friendRemoved", friendId, "")
      ELSE Emit("failedToRemoveFriend", friendId, "")>>

\* Core::removeFriend
RemoveFriend ==
    /\ Idle
    /\ \E friendId \in 0 .. MaxFriends - 1, ok \in BOOLEAN :
          /\ ok => friendId = friendCount - 1
          /\ Returns([name |-> "removeFriend", friend |-> friendId, ok |-> ok],
                     RemoveFriendTrace(tox, friendId, ok))
          /\ friendCount' = IF ok /\ tox # nullptr THEN friendCount - 1 ELSE friendCount
    /\ UNCHANGED <<tox, engines, created, registered, isConnected, timerActive, configFile,
                   saveFile, destroyed>>

\* the names and status messages the slots are called with
Names == {"", "nurupo"}

\* enum class Status
Statuses == {"Online", "Away", "Busy", "Offline"}

\* the switch of Core::setStatus
Userstatus(status) ==
    IF status = "Online" THEN "TOX_USERSTATUS_NONE"
    ELSE IF status = "Away" THEN "TOX_USERSTATUS_AWAY"
    ELSE IF status = "Busy" THEN "TOX_USERSTATUS_BUSY"
    ELSE "TOX_USERSTATUS_INVALID"

\* what setUsername, setStatusMessage and setStatus are called with
SetOwnInputs(slot) == IF slot = "setStatus" THEN Statuses ELSE Names

\* Core::setUsername, Core::setStatusMessage and Core::setStatus called with input; ok says
\* the engine call succeeds
SetOwnTrace(slot, h, input, ok) ==
    IF slot = "setUsername"
    THEN <<Call("tox_set_name", h, -1, input),
           Emit(IF ok THEN "usernameSet" ELSE "failedToSetUsername", -1, input)>>
    ELSE IF slot = "setStatusMessage"
    THEN <<Call("tox_set_status_message", h, -1, input),
           Emit(IF ok THEN "statusMessageSet" ELSE "failedToSetStatusMessage", -1, input)>>
    ELSE <<Call("tox_set_user_status", h, -1, Userstatus(input)),
           Emit(IF ok THEN "statusSet" ELSE "failedToSetStatus", -1, input)>>

\* Core::setUsername, Core::setStatusMessage and Core::setStatus
SetOwn ==
    /\ Idle
    /\ \E slot \in {"setUsername", "setStatusMessage", "setStatus"}, ok \in BOOLEAN :
       \E input \in SetOwnInputs(slot) :
          Returns([name |-> slot, input |-> input, ok |-> ok],
                  SetOwnTrace(slot, tox, input, ok))
    /\ UNCHANGED <<tox, engines, created, registered, friendCount, isConnected, timerActive,
                   configFile, saveFile, destroyed>>

\* Core::sendTyping and Core::sendAction
SendOther ==
    /\ Idle
    /\ \E slot \in {"sendTyping", "sendAction"}, friendId \in 0 .. MaxFriends - 1,
          ok \in BOOLEAN :
          Returns([name |-> slot, friend |-> friendId, ok |-> ok],
                  IF slot = "sendTyping"
                  THEN <<Call("tox_set_user_is_typing", tox, friendId, "")>>
                       \o (IF ok THEN <<>> ELSE <<Emit("failedToSetTyping", -1, "")>>)
                  ELSE <<Call("tox_send_action", tox, friendId, ""),
                         Emit("actionSentResult", friendId, IF ok THEN "sent" ELSE "failed")>>)
    /\ UNCHANGED <<tox, engines, created, registered, friendCount, isConnected, timerActive,
                   configFile, saveFile, destroyed>>

\* the texts sendMessage is called with in the session: "", "a a a ", two U+1F600
SessionTexts ==
    {<<>>, <<97, 32, 97, 32, 97, 32>>, <<240, 159, 152, 128, 240, 159, 152, 128>>}

\* Core::sendMessage is entered: its loop runs as SplitChunk, its end as SendRemainder
SendMessage ==
    /\ Idle
    /\ \E friendId \in 0 .. MaxFriends - 1, text \in SessionTexts :
          /\ op' = [name |-> "sendMessage", friend |-> friendId]
          /\ byteArray' = text
    /\ messageOffset' = 0
    /\ absoluteMaxLength' = TOX_MAX_MESSAGE_LENGTH
    /\ sent' = <<>>
    /\ trace' = <<>>
    /\ pc' = "loop"
    /\ UNCHANGED <<TOX_MAX_MESSAGE_LENGTH, tox, engines, created, registered, friendCount,
                   isConnected, timerActive, configFile, saveFile, crashed, destroyed>>

(***************************************************************************)
(* Core::saveConfiguration and the destructor.                             *)
(***************************************************************************)
\* mutant: the engine state is serialized although directory or file could not be had
saveConfigurationNoReturn(h, dirOk, openOk, sizeOk) ==
    <<Call("tox_size", h, -1, "")>>
        \o (IF sizeOk
            THEN <<Call("tox_save", h, -1, ""), File("write"), File("commit")>>
            ELSE <<>>)

\* Core::saveConfiguration: the directory is there or made, the QSaveFile opens, tox_size
\* is in range
saveConfiguration(h, dirOk, openOk, sizeOk) ==
    IF ~dirOk THEN <<>>
    ELSE IF ~openOk THEN <<>>
    ELSE <<Call("tox_size", h, -1, "")>>
         \o (IF sizeOk
             THEN <<Call("tox_save", h, -1, ""), File("write"), File("commit")>>
             ELSE <<>>)

\* data.tox after Core::saveConfiguration
SavedFile(file, dirOk, openOk, sizeOk) ==
    IF dirOk /\ openOk /\ sizeOk
    THEN [exists |-> TRUE, size |-> 1, friends |-> friendCount]
    ELSE file

\* mutant: the engine is released before its state is saved
DestructorTraceKillFirst(h, dirOk, openOk, sizeOk) ==
    IF h # nullptr
    THEN <<Call("tox_kill", h, -1, "")>> \o saveConfiguration(h, dirOk, openOk, sizeOk)
    ELSE <<>>

\* what Core::~Core does
DestructorTrace(h, dirOk, openOk, sizeOk) ==
    IF h # nullptr
    THEN saveConfiguration(h, dirOk, openOk, sizeOk) \o <<Call("tox_kill", h, -1, "")>>
    ELSE <<>>

\* Core::~Core
Destructor ==
    /\ Idle
    /\ \E dirOk, openOk, sizeOk \in BOOLEAN :
          /\ tox = nullptr => (dirOk /\ openOk /\ sizeOk)
          /\ ~dirOk => (openOk /\ sizeOk)
          /\ ~openOk => sizeOk
          /\ Returns([name |-> "~Core", dirOk |-> dirOk, openOk |-> openOk, sizeOk |-> sizeOk],
                     DestructorTrace(tox, dirOk, openOk, sizeOk))
          /\ configFile' = IF tox # nullptr THEN SavedFile(configFile, dirOk, openOk, sizeOk)
                           ELSE configFile
    /\ engines' = engines \ {tox}
    /\ timerActive' = FALSE
    /\ destroyed' = TRUE
    /\ UNCHANGED <<tox, created, registered, friendCount, isConnected, saveFile>>

\* the frame limits of the session runs
SessionFrameLimits == {5}

\* the state Core::Core leaves
Init ==
    /\ TOX_MAX_MESSAGE_LENGTH \in SessionFrameLimits
    /\ byteArray = <<>>
    /\ messageOffset = 0
    /\ absoluteMaxLength = 0
    /\ sent = <<>>
    /\ pc = "idle"
    /\ tox = nullptr
    /\ engines = {}
    /\ created = 0
    /\ registered = {}
    /\ friendCount = 0
    /\ isConnected = FALSE
    /\ timerActive = FALSE
    /\ configFile \in ConfigFiles
    /\ saveFile = NoSaveFile
    /\ op = [name |-> "none"]
    /\ trace = <<>>
    /\ crashed = FALSE
    /\ destroyed = FALSE

Next ==
    \/ Start
    \/ DhtServerListChanged
    \/ Process
    \/ AddFriend
    \/ RemoveFriend
    \/ SetOwn
    \/ SendOther
    \/ SendMessage
    \/ SplitChunk
    \/ SendRemainder
    \/ Destructor
    \/ EventLoop

Spec == Init /\ [][Next]_vars

\* the Qt event loop returns to a handler's caller, finishes a sendMessage that has begun,
\* and delivers the timeout of an armed timer even if other events keep coming
SpecLive ==
    /\ Spec
    /\ WF_vars(EventLoop)
    /\ WF_vars(SplitChunk)
    /\ WF_vars(SendRemainder)
    /\ SF_vars(Process)

(***************************************************************************)
(* Core::~Core step by step, for a session with an engine: the steps of    *)
(* Core::saveConfiguration, then tox_kill. QSaveFile writes to a temporary *)
(* file and commit() renames it over data.tox; a QSaveFile destroyed       *)
(* without commit(), or committed after a failed write, leaves data.tox    *)
(* alone. The process can die between any two steps.                       *)
(***************************************************************************)
\* the blob tox_save produces for the engine's n friends, as a file
NewBlob(n) == [exists |-> TRUE, size |-> 1, friends |-> n]

\* mutant: the blob is written into data.tox itself (a QFile, not a QSaveFile)
TargetWrittenInPlace(file, temp) == [exists |-> TRUE, size |-> 1, friends |-> -1]

\* data.tox while QSaveFile::write fills the temporary file
TargetWhileWriting(file, temp) == file

\* data.tox after QSaveFile::commit: the rename is not made after a failed write
Committed(file, temp, blob) == IF temp.error THEN file ELSE blob

\* directory.exists() || directory.mkpath(...)
SaveMkdir ==
    /\ pc = "save"
    /\ ~crashed
    /\ \E dirOk \in BOOLEAN :
          /\ op' = [op EXCEPT !.dirOk = dirOk]
          /\ pc' = IF dirOk THEN "open" ELSE "kill"
    /\ UNCHANGED <<TOX_MAX_MESSAGE_LENGTH, byteArray, messageOffset, absoluteMaxLength, sent>>
    /\ UNCHANGED <<tox, engines, created, registered, friendCount, isConnected, timerActive,
                   configFile, saveFile, trace, crashed, destroyed>>

\* configurationFile.open(QIODevice::WriteOnly)
SaveOpen ==
    /\ pc = "open"
    /\ ~crashed
    /\ \E openOk \in BOOLEAN :
          /\ op' = [op EXCEPT !.openOk = openOk]
          /\ saveFile' = [open |-> openOk, written |-> 0, error |-> FALSE]
          /\ pc' = IF openOk THEN "size" ELSE "kill"
    /\ UNCHANGED <<TOX_MAX_MESSAGE_LENGTH, byteArray, messageOffset, absoluteMaxLength, sent>>
    /\ UNCHANGED <<tox, engines, created, registered, friendCount, isConnected, timerActive,
                   configFile, trace, crashed, destroyed>>

\* tox_size, and tox_save if the size is in range; otherwise saveConfiguration returns and
\* the QSaveFile is destroyed uncommitted
SaveSize ==
    /\ pc = "size"
    /\ ~crashed
    /\ \E sizeOk \in BOOLEAN :
          /\ op' = [op EXCEPT !.sizeOk = sizeOk]
          /\ trace' = trace \o <<Call("tox_size", tox, -1, "")>>
                            \o (IF sizeOk THEN <<Call("tox_save", tox, -1, "")>> ELSE <<>>)
          /\ saveFile' = IF sizeOk THEN saveFile ELSE NoSaveFile
          /\ pc' = IF sizeOk THEN "write" ELSE "kill"
    /\ UNCHANGED <<TOX_MAX_MESSAGE_LENGTH, byteArray, messageOffset, absoluteMaxLength, sent>>
    /\ UNCHANGED <<tox, engines, created, registered, friendCount, isConnected, timerActive,
                   configFile, crashed, destroyed>>

\* configurationFile.write: one block reaches the temporary file, or the write fails
SaveWrite ==
    /\ pc = "write"
    /\ ~crashed
    /\ saveFile.written < BlobBlocks
    /\ \E writeOk \in BOOLEAN :
          /\ op' = [op EXCEPT !.writeOk = writeOk]
          /\ saveFile' = IF writeOk THEN [saveFile EXCEPT !.written = @ + 1]
                         ELSE [saveFile EXCEPT !.error = TRUE]
          /\ configFile' = TargetWhileWriting(configFile, saveFile')
          /\ LET over == ~writeOk \/ saveFile'.written = BlobBlocks
             IN  /\ trace' = IF over THEN Append(trace, File("write")) ELSE trace
                 /\ pc' = IF over THEN "commit" ELSE "write"
    /\ UNCHANGED <<TOX_MAX_MESSAGE_LENGTH, byteArray, messageOffset, absoluteMaxLength, sent>>
    /\ UNCHANGED <<tox, engines, created, registered, friendCount, isConnected, timerActive,
                   crashed, destroyed>>

\* configurationFile.commit(), then saveConfiguration returns
SaveCommit ==
    /\ pc = "commit"
    /\ ~crashed
    /\ configFile' = Committed(configFile, saveFile, NewBlob(friendCount))
    /\ saveFile' = NoSaveFile
    /\ trace' = Append(trace, File("commit"))
    /\ pc' = "kill"
    /\ UNCHANGED <<TOX_MAX_MESSAGE_LENGTH, byteArray, messageOffset, absoluteMaxLength, sent>>
    /\ UNCHANGED <<tox, engines, created, registered, friendCount, isConnected, timerActive,
                   op, crashed, destroyed>>

\* tox_kill(tox), the end of Core::~Core
Kill ==
    /\ pc = "kill"
    /\ ~crashed
    /\ trace' = Append(trace, Call("tox_kill", tox, -1, ""))
    /\ engines' = engines \ {tox}
    /\ timerActive' = FALSE
    /\ destroyed' = TRUE
    /\ pc' = "done"
    /\ UNCHANGED <<TOX_MAX_MESSAGE_LENGTH, byteArray, messageOffset, absoluteMaxLength, sent>>
    /\ UNCHANGED <<tox, created, registered, friendCount, isConnected, configFile, saveFile,
                   op, crashed>>

\* the process dies inside Core::~Core: what is on disk stays as it is
Interrupt ==
    /\ pc # "done"
    /\ ~crashed
    /\ crashed' = TRUE
    /\ UNCHANGED <<TOX_MAX_MESSAGE_LENGTH, byteArray, messageOffset, absoluteMaxLength, sent, pc>>
    /\ UNCHANGED <<tox, engines, created, registered, friendCount, isConnected, timerActive,
                   configFile, saveFile, op, trace, destroyed>>

\* Core::~Core is entered on a session with an engine; op.file is data.tox as it was
InitSave ==
    /\ TOX_MAX_MESSAGE_LENGTH \in SessionFrameLimits
    /\ byteArray = <<>>
    /\ messageOffset = 0
    /\ absoluteMaxLength = 0
    /\ sent = <<>>
    /\ pc = "save"
    /\ tox = 1
    /\ engines = {1}
    /\ created = 1
    /\ registered = {1}
    /\ friendCount \in 0 .. MaxFriends
    /\ isConnected \in BOOLEAN
    /\ timerActive = TRUE
    /\ configFile \in ConfigFiles
    /\ saveFile = NoSaveFile
    /\ op = [name |-> "~Core", file |-> configFile, dirOk |-> TRUE, openOk |-> TRUE,
             sizeOk |-> TRUE, writeOk |-> TRUE]
    /\ trace = <<>>
    /\ crashed = FALSE
    /\ destroyed = FALSE

NextSave ==
    \/ SaveMkdir
    \/ SaveOpen
    \/ SaveSize
    \/ SaveWrite
    \/ SaveCommit
    \/ Kill
    \/ Interrupt

SpecSave == InitSave /\ [][NextSave]_vars

(***************************************************************************)
(* Properties of Core::sendMessage, checked under SpecChunk.               *)
(***************************************************************************)
FrameLimit == TOX_MAX_MESSAGE_LENGTH

ChunkEnd(k) == sent[k].offset + sent[k].length

ChunkBytes(k) == Range(byteArray, sent[k].offset, ChunkEnd(k))

RECURSIVE ConcatChunks(_)
ConcatChunks(k) == IF k = 0 THEN <<>> ELSE ConcatChunks(k - 1) \o ChunkBytes(k)

\* the chunks the while loop sent: all of them, but the last one once sendMessage returned
\* (the loop leaves at least one byte to the remainder whenever it ran)
LoopChunks == IF pc = "done" /\ Len(sent) > 0 THEN 1 .. Len(sent) - 1 ELSE 1 .. Len(sent)

IsContinuation(b) == b \in 128 .. 191

\* the length of the UTF-8 sequence a byte starts, 0 for a byte that starts none
SequenceLength(b) ==
    IF b < 128 THEN 1
    ELSE IF b \in 192 .. 223 THEN 2
    ELSE IF b \in 224 .. 239 THEN 3
    ELSE IF b \in 240 .. 247 THEN 4
    ELSE 0

\* a strict UTF-8 decoder accepts s
RECURSIVE ValidUtf8(_)
ValidUtf8(s) ==
    IF s = <<>> THEN TRUE
    ELSE LET n == SequenceLength(s[1])
         IN  /\ n > 0
             /\ Len(s) >= n
             /\ \A j \in 2 .. n : IsContinuation(s[j])
             /\ ValidUtf8(SubSeq(s, n + 1, Len(s)))

SetMax(S) == CHOOSE x \in S : \A y \in S : y <= x

\* the codepoint-safe position of a frame candidate: the last position, at most 3 bytes
\* before the candidate's last byte, that holds no continuation byte
SafePosition(offset) ==
    LET last == offset + FrameLimit - 1
    IN  SetMax({p \in last - 3 .. last : ~IsContinuation(At(byteArray, p))})

\* split characters among the last M/4 bytes of the frame candidate, up to the safe position
TrailingQuarter(offset) ==
    {i \in offset + FrameLimit - FrameLimit \div 4 .. SafePosition(offset) : At(byteArray, i) \in splitOn}

\* split characters among the M/4 bytes that end at the safe position
QuarterBeforeSafe(offset) ==
    {i \in SafePosition(offset) - FrameLimit \div 4 + 1 .. SafePosition(offset) :
        At(byteArray, i) \in splitOn}

C2_ChunksFitAndDecode ==
    \A k \in 1 .. Len(sent) :
        /\ sent[k].length <= FrameLimit
        /\ sent[k].offset < Len(byteArray) => ~IsContinuation(At(byteArray, sent[k].offset))
        /\ ChunkEnd(k) < Len(byteArray) => ~IsContinuation(At(byteArray, ChunkEnd(k)))
        /\ ValidUtf8(ChunkBytes(k))

\* a chunk was cut short because its M-th byte is inside a multi-byte codepoint
C2_Witness ==
    /\ pc = "done"
    /\ \E k \in LoopChunks :
          /\ IsContinuation(At(byteArray, sent[k].offset + FrameLimit - 1))
          /\ IsContinuation(At(byteArray, sent[k].offset + FrameLimit))

\* C3 as stated, for every FrameLimit >= 4: every chunk the loop sends is non-empty (the cut is beyond
\* the offset) and the loop is never stuck before sendMessage returns
C3_ProgressFromFour ==
    /\ \A k \in LoopChunks : sent[k].length > 0
    /\ pc = "done" \/ ENABLED NextChunk

\* C3 amended: for every FrameLimit >= 5 every chunk the loop sends is non-empty, so the offset grows
\* in every iteration, and the loop is never stuck before sendMessage returns
C3_ProgressFromFive ==
    FrameLimit >= 5 =>
        /\ \A k \in LoopChunks : sent[k].length > 0
        /\ messageOffset <= Len(byteArray)
        /\ pc = "done" \/ ENABLED NextChunk

\* a text of 4-byte codepoints only was sent in several chunks with FrameLimit = 5
C3_Witness ==
    /\ FrameLimit = 5
    /\ pc = "done"
    /\ Len(sent) >= 3
    /\ \A i \in 1 .. Len(byteArray) : byteArray[i] >= 128 /\ SequenceLength(byteArray[1]) = 4

\* C4 as stated: a text of at most FrameLimit bytes, the empty one included, is sent as one chunk
C4_OneChunkIncludingEmpty ==
    (pc = "done" /\ Len(byteArray) <= FrameLimit) =>
        /\ Len(sent) = 1
        /\ ChunkBytes(1) = byteArray

\* C4 amended: a text of 1 to FrameLimit bytes is sent as exactly one chunk, equal to the text; the
\* empty text is sent as no chunk at all
C4_OneChunkUnlessEmpty ==
    (pc = "done" /\ Len(byteArray) <= FrameLimit) =>
        IF Len(byteArray) = 0
        THEN sent = <<>>
        ELSE /\ Len(sent) = 1
             /\ sent[1].offset = 0
             /\ ChunkBytes(1) = byteArray

\* a text of exactly FrameLimit bytes was sent
C4_Witness ==
    /\ pc = "done"
    /\ Len(byteArray) = FrameLimit
    /\ Len(sent) = 1

\* C5 as stated: the cut is right after the rightmost split character among the M/4 bytes
\* that end at the codepoint-safe position, and the safe position if there is none
C5_CutInQuarterBeforeSafe ==
    \A k \in LoopChunks :
        ChunkEnd(k) = IF QuarterBeforeSafe(sent[k].offset) # {}
                      THEN SetMax(QuarterBeforeSafe(sent[k].offset)) + 1
                      ELSE SafePosition(sent[k].offset)

\* C5 amended: the cut is right after the rightmost split character among the last M/4 bytes
\* of the frame candidate (positions offset+M-M/4 .. offset+M-1) that are not beyond the
\* codepoint-safe position, and the safe position if there is none
C5_CutInTrailingQuarter ==
    \A k \in LoopChunks :
        ChunkEnd(k) = IF TrailingQuarter(sent[k].offset) # {}
                      THEN SetMax(TrailingQuarter(sent[k].offset)) + 1
                      ELSE SafePosition(sent[k].offset)

\* a chunk was cut after a split character, before the codepoint-safe position
C5_Witness ==
    /\ pc = "done"
    /\ \E k \in LoopChunks :
          /\ At(byteArray, ChunkEnd(k) - 1) \in splitOn
          /\ ChunkEnd(k) < SafePosition(sent[k].offset)

\* the position offset + M, the first byte after the frame candidate
CandidatePosition(offset) == offset + FrameLimit

\* the last codepoint start among the 3 bytes before offset + M and that byte itself
SafeCandidate(offset) ==
    LET candidate == CandidatePosition(offset)
    IN  SetMax({p \in candidate - 3 .. candidate : ~IsContinuation(At(byteArray, p))})

\* the frame candidate that begins at offset holds single-byte codepoints only, none of
\* them a split character
PlainFrame(offset) ==
    \A p \in offset .. offset + FrameLimit - 1 :
        At(byteArray, p) < 128 /\ At(byteArray, p) \notin splitOn

EmittedNames(tr) ==
    LET es == SelectSeq(tr, LAMBDA e : e.kind = "emit")
    IN  [i \in 1 .. Len(es) |-> es[i].name]

\* the names of the signals a trace emits about one friend, in order
EmittedAbout(tr, f) ==
    LET es == SelectSeq(tr, LAMBDA e : e.kind = "emit" /\ e.friend = f)
    IN  [i \in 1 .. Len(es) |-> es[i].name]

\* the connected / disconnected signals of a trace, in order
ConnectivityEvents(tr) ==
    LET es == SelectSeq(tr, LAMBDA e : e.kind = "emit" /\ e.name \in {"connected", "disconnected"})
    IN  [i \in 1 .. Len(es) |-> es[i].name]

IsLastSeenLookup(e) == e.kind = "call" /\ e.name = "tox_get_last_online"

\* a tick has just run to its end
Ticked == op.name = "process" /\ pc = "done" /\ ~crashed

\* C6: a tick that finds the engine connected while isConnected is false emits connected
\* once, one that finds it not connected while isConnected is true emits disconnected once,
\* any other tick emits neither; isConnected then holds what the tick found; no other
\* handler emits either signal or changes isConnected (so the two signals alternate,
\* connected first, isConnected being false at the start)
C6_EdgeTriggered ==
    [][IF op'.name = "process" /\ pc' = "done" /\ ~crashed'
       THEN /\ ConnectivityEvents(trace') =
                   (IF op'.connected /\ ~isConnected THEN <<"connected">>
                    ELSE IF ~op'.connected /\ isConnected THEN <<"disconnected">>
                    ELSE <<>>)
            /\ isConnected' = op'.connected
       ELSE /\ ConnectivityEvents(trace') = <<>>
            /\ isConnected' = isConnected]_vars

\* a tick found the engine still connected and emitted nothing about it
C6_Witness ==
    /\ Ticked
    /\ op.connected
    /\ op.was
    /\ isConnected
    /\ ConnectivityEvents(trace) = <<>>

\* C7 as stated: a tick that emits disconnected while the engine holds friends also looks
\* up a last-seen time
C7_DisconnectRefreshesLastSeen ==
    (Ticked /\ friendCount > 0 /\ ConnectivityEvents(trace) = <<"disconnected">>) =>
        \E i \in 1 .. Len(trace) : IsLastSeenLookup(trace[i])

\* C7 amended: a tick emits disconnected exactly when it finds the engine not connected while
\* isConnected is true, and the connectivity check looks up no last-seen time: every lookup
\* of a tick follows at once the friendStatusChanged(friend, Offline) that the
\* connection-status callback emitted for that friend, and there is one lookup for each
\* such callback
C7_LastSeenOnlyFromCallback ==
    Ticked =>
        /\ (ConnectivityEvents(trace) = <<"disconnected">>) <=> (op.was /\ ~op.connected)
        /\ \A i \in 1 .. Len(trace) :
              IsLastSeenLookup(trace[i]) =>
                  /\ i > 1
                  /\ trace[i - 1] = Emit("friendStatusChanged", trace[i].friend, "Offline")
        /\ \A i \in 1 .. Len(trace) :
              trace[i] = Emit("friendStatusChanged", trace[i].friend, "Offline") =>
                  /\ i < Len(trace)
                  /\ IsLastSeenLookup(trace[i + 1])
                  /\ trace[i + 1].friend = trace[i].friend
        /\ Cardinality({i \in 1 .. Len(trace) : IsLastSeenLookup(trace[i])}) =
               Cardinality({j \in 1 .. Len(op.batch) :
                               op.batch[j].kind = "connectionStatus" /\ op.batch[j].value = 0})

\* a tick emitted disconnected while the engine holds friends, and looked up no last-seen time
C7_Witness ==
    /\ Ticked
    /\ friendCount > 0
    /\ ConnectivityEvents(trace) = <<"disconnected">>
    /\ \A i \in 1 .. Len(trace) : ~IsLastSeenLookup(trace[i])

\* what Friend Directory Sync is to emit about a friend the engine answers a about
SyncEvents(a) ==
    <<"friendAdded">>
        \o (IF a.name = "loaded" THEN <<"friendUsernameLoaded">> ELSE <<>>)
        \o (IF a.status = "loaded" THEN <<"friendStatusMessageLoaded">> ELSE <<>>)
        \o (IF a.lastOnline # 0 THEN <<"friendLastSeenChanged">> ELSE <<>>)

\* C8: a start that got an engine emits about each friend of the loaded friend list
\* friendAdded, then friendUsernameLoaded if a name was read, then friendStatusMessageLoaded
\* if a status message was read, then friendLastSeenChanged if the last-seen time is not 0,
\* in this order and nothing else (nothing at all for a friend whose id the engine does not
\* give)
C8_SyncOrder ==
    (op.name = "start" /\ pc = "done" /\ tox # nullptr) =>
        \A f \in 0 .. MaxFriends - 1 :
            EmittedAbout(trace, f) =
                IF f < Len(op.answers) /\ op.answers[f + 1].clientIdOk
                THEN SyncEvents(op.answers[f + 1])
                ELSE <<>>

\* a start loaded a friend with a name and a status message and no last-seen time, and
\* another friend after it
C8_Witness ==
    /\ op.name = "start"
    /\ pc = "done"
    /\ Len(op.answers) >= 2
    /\ op.answers[1].name = "loaded"
    /\ op.answers[1].status = "loaded"
    /\ op.answers[1].lastOnline = 0
    /\ EmittedAbout(trace, 0) =
           <<"friendAdded", "friendUsernameLoaded", "friendStatusMessageLoaded">>
    /\ EmittedAbout(trace, 1) # <<>>

\* C9: no engine primitive is called on a null handle
C9_NoCallWithoutHandle ==
    /\ \A i \in 1 .. Len(trace) : trace[i].kind = "call" => trace[i].tox # nullptr
    /\ \A k \in 1 .. Len(sent) : sent[k].tox # nullptr

\* the tox_new calls of a trace, and everything else in it
NewCalls(tr) == SelectSeq(tr, LAMBDA e : e.kind = "new")

NotNewCalls(tr) == SelectSeq(tr, LAMBDA e : e.kind # "new")

\* C10: start calls tox_new once or twice, the second time only for IPv4 after a failed
\* first attempt and only if IPv6 and the IPv4 fallback are both enabled; a start left without
\* an engine does nothing else than emit failedToStart once (no configuration loaded, no
\* callback registered, no other signal, no timer start); and as long as no start has got
\* an engine the timer is not armed and no callback is registered
C10_FailedStart ==
    /\ (op.name = "start" /\ pc = "done") =>
          LET news == NewCalls(trace)
          IN  /\ Len(news) \in {1, 2}
              /\ news[1].arg = Transport(op.ipv6)
              /\ Len(news) = 2 =>
                    /\ news[1].tox = nullptr
                    /\ news[2].arg = "ipv4"
                    /\ op.ipv6
                    /\ op.fallback
              /\ tox = news[Len(news)].tox
              /\ tox = nullptr => NotNewCalls(trace) = <<Emit("failedToStart", -1, "")>>
    /\ created = 0 => (tox = nullptr /\ ~timerActive /\ registered = {} /\ engines = {})

\* a start failed twice, for IPv6 and for IPv4
C10_Witness ==
    /\ op.name = "start"
    /\ pc = "done"
    /\ tox = nullptr
    /\ Len(NewCalls(trace)) = 2
    /\ EmittedNames(trace) = <<"failedToStart">>

(***************************************************************************)
(* Properties of the save, checked under SpecSave.                         *)
(***************************************************************************)
\* the save ran through: directory, open, size and write were all fine and commit was called
SaveCompleted ==
    /\ op.dirOk
    /\ op.openOk
    /\ op.sizeOk
    /\ op.writeOk
    /\ pc \in {"kill", "done"}

\* C11: at every point of a save, the process having died there or not, data.tox is either
\* what it was when the save began or the complete new blob; it is the new blob only once
\* commit was reached after a complete write, and a save that is skipped, writes nothing
\* (tox_size zero or too large) or fails in the write leaves what was there
C11_OldOrNewBlob ==
    /\ configFile \in {op.file, NewBlob(friendCount)}
    /\ configFile # op.file => SaveCompleted
    /\ SaveCompleted => configFile = NewBlob(friendCount)

\* the process died after the whole blob was written to the temporary file and before the
\* commit: data.tox is still the previous file
C11_Witness ==
    /\ crashed
    /\ pc = "commit"
    /\ saveFile.written = BlobBlocks
    /\ ~saveFile.error
    /\ configFile = op.file
    /\ op.file # NewBlob(friendCount)

\* the slots that add a friend, and the engine calls that add one
AddFriendSlots == {"acceptFriendRequest", "requestFriendship"}

AddFriendCalls(tr) ==
    SelectSeq(tr, LAMBDA e : e.kind = "call"
                              /\ e.name \in {"tox_add_friend_norequest", "tox_add_friend"})

\* the text does not decode to size bytes, or has a character that is no hexadecimal digit
Malformed(text, size) ==
    \/ Len(fromString(text)) # size
    \/ \E i \in 1 .. Len(text) : HexValue(Lower(text[i])) < 0

\* an add-friend slot has returned on a session with an engine
AddFriendReturned == op.name \in AddFriendSlots /\ pc = "done" /\ ~crashed /\ tox # nullptr

\* C12: an add-friend slot given a malformed identifier makes no add-friend call to the
\* engine and emits failedToAddFriend
C12_MalformedIdRejected ==
    (AddFriendReturned /\ Malformed(op.text, IdSize(op.name))) =>
        /\ AddFriendCalls(trace) = <<>>
        /\ EmittedNames(trace) = <<"failedToAddFriend">>

\* the signals a trace emits, in order, with what they carry
Emitted(tr) == SelectSeq(tr, LAMBDA e : e.kind = "emit")

\* the slots of C13 other than the add-friend slots
SetOwnSlots == {"setUsername", "setStatusMessage", "setStatus"}

\* the text is size bytes written as hexadecimal digits, two to the byte
WellFormed(text, size) ==
    /\ Len(text) = 2 * size
    /\ \A i \in 1 .. Len(text) : HexValue(Lower(text[i])) >= 0

\* the text an add-friend slot was called with
TextOf(o) == IF o.name \in AddFriendSlots THEN o.text ELSE <<>>

\* the one signal a slot is to emit: o is the record of the call, userId what the signals of
\* requestFriendship carry
ExpectedEvent(o, userId) ==
    IF o.name = "acceptFriendRequest"
    THEN (IF o.friendId < 0 THEN Emit("failedToAddFriend", -1, o.text)
          ELSE Emit("friendAdded", o.friendId, o.text))
    ELSE IF o.name = "requestFriendship"
    THEN (IF o.friendId < 0 THEN Emit("failedToAddFriend", -1, userId)
          ELSE Emit("friendAdded", o.friendId, userId))
    ELSE IF o.name = "removeFriend"
    THEN Emit(IF o.ok THEN "friendRemoved" ELSE "failedToRemoveFriend", o.friend, "")
    ELSE IF o.name = "setUsername"
    THEN Emit(IF o.ok THEN "usernameSet" ELSE "failedToSetUsername", -1, o.input)
    ELSE IF o.name = "setStatusMessage"
    THEN Emit(IF o.ok THEN "statusMessageSet" ELSE "failedToSetStatusMessage", -1, o.input)
    ELSE Emit(IF o.ok THEN "statusSet" ELSE "failedToSetStatus", -1, o.input)

\* C13 as stated: each of the slots, called on a session with an engine (the add-friend
\* slots with a well-formed identifier), emits exactly one signal, and the signal carries
\* the input the slot was called with
C13_FailureEchoesInput ==
    (op.name \in AddFriendSlots \cup SetOwnSlots \cup {"removeFriend"}
       /\ pc = "done" /\ ~crashed /\ tox # nullptr
       /\ (op.name \in AddFriendSlots => WellFormed(op.text, IdSize(op.name)))) =>
        Emitted(trace) = <<ExpectedEvent(op, TextOf(op))>>

\* C13 amended: on a session with an engine each of the slots emits exactly one signal, the
\* success signal if the engine call succeeded and the failure signal otherwise; the signal
\* carries the slot's input, except that the signals of requestFriendship carry the first
\* 2 * TOX_CLIENT_ID_SIZE characters of the address (the user id); the handle, the engines
\* and the timer are as before the call
C13_OneEventPerCall ==
    [][(op'.name \in AddFriendSlots \cup SetOwnSlots \cup {"removeFriend"}
          /\ pc' = "done" /\ ~crashed' /\ tox # nullptr) =>
           /\ Emitted(trace') = <<ExpectedEvent(op', Mid(TextOf(op'), TOX_CLIENT_ID_SIZE * 2))>>
           /\ tox' = tox
           /\ engines' = engines
           /\ timerActive' = timerActive]_vars

\* requestFriendship failed on a well-formed address and reported the user id in it
C13_Witness ==
    /\ op.name = "requestFriendship"
    /\ pc = "done"
    /\ ~crashed
    /\ tox # nullptr
    /\ op.friendId < 0
    /\ WellFormed(op.text, TOX_FRIEND_ADDRESS_SIZE)
    /\ Emitted(trace) = <<Emit("failedToAddFriend", -1, Mid(op.text, TOX_CLIENT_ID_SIZE * 2))>>
    /\ Mid(op.text, TOX_CLIENT_ID_SIZE * 2) # op.text

\* how many entries of a trace have one of the names
CountOf(tr, names) == Cardinality({i \in 1 .. Len(tr) : tr[i].name \in names})

\* the destructor has run
Destroyed == op.name = "~Core" /\ pc = "done"

\* C14: the destructor of a session with an engine handle ends with the one tox_kill on that
\* handle, after everything the save does (tox_size, tox_save, write and commit, each at most
\* once and tox_save and commit exactly once when directory, file and size are fine); the
\* destructor of a session without a handle does nothing
C14_SaveThenRelease ==
    Destroyed =>
        IF tox # nullptr
        THEN /\ CountOf(trace, {"tox_kill"}) = 1
             /\ trace[Len(trace)] = Call("tox_kill", tox, -1, "")
             /\ tox \notin engines
             /\ \A n \in {"tox_size", "tox_save", "write", "commit"} :
                   CountOf(trace, {n}) <= 1
             /\ \A n \in {"tox_save", "write", "commit"} :
                   CountOf(trace, {n}) = IF op.dirOk /\ op.openOk /\ op.sizeOk THEN 1 ELSE 0
        ELSE trace = <<>>

\* the destructor saved the blob and then released the engine
C14_Witness ==
    /\ Destroyed
    /\ tox # nullptr
    /\ Len(trace) = 5
    /\ trace[2].name = "tox_save"
    /\ trace[4].name = "commit"
    /\ trace[5].name = "tox_kill"

\* C15: at most one engine that tox_new created has not been given to tox_kill
C15_AtMostOneEngine == Cardinality(engines) <= 1

\* the entries of a start's trace, by the step of Core::start they belong to
LoadStep == {"tox_load"}

CallbackStep ==
    {"tox_callback_friend_request", "tox_callback_friend_message", "tox_callback_friend_action",
     "tox_callback_name_change", "tox_callback_typing_change", "tox_callback_status_message",
     "tox_callback_user_status", "tox_callback_connection_status"}

SyncStep ==
    {"tox_count_friendlist", "tox_get_friendlist", "tox_get_client_id", "friendAdded",
     "tox_get_name_size", "tox_get_name", "friendUsernameLoaded",
     "tox_get_status_message_size", "tox_get_status_message", "friendStatusMessageLoaded",
     "tox_get_last_online", "friendLastSeenChanged"}

AddressStep == {"tox_get_address", "friendAddressGenerated"}

ApplyStep == {"tox_set_name", "tox_set_status_message"}

BootstrapStep == {"tox_bootstrap_from_address"}

TimerStep == {"tox_do_interval", "start"}

\* the place in steps of the step the name belongs to, 0 if it belongs to none
StepNumber(name, steps) ==
    IF \E p \in 1 .. Len(steps) : name \in steps[p]
    THEN CHOOSE p \in 1 .. Len(steps) : name \in steps[p]
    ELSE 0

\* every entry of tr that belongs to a step of steps comes before every entry that belongs
\* to a later step of steps
InOrder(tr, steps) ==
    LET es == SelectSeq(tr, LAMBDA e : StepNumber(e.name, steps) > 0)
    IN  \A i \in 1 .. Len(es) - 1 :
            StepNumber(es[i].name, steps) <= StepNumber(es[i + 1].name, steps)

\* a start has returned with an engine
Started == op.name = "start" /\ pc = "done" /\ tox # nullptr

\* the steps of a successful start that are always taken, each entry once
StartComplete ==
    /\ \A n \in CallbackStep \cup AddressStep \cup ApplyStep \cup TimerStep :
          CountOf(trace, {n}) = 1
    /\ trace[Len(trace)] = TimerStart

\* C16 as stated: load, callbacks, Friend Directory Sync, own address, name and status
\* message, bootstrap, timer
C16_CallbacksBeforeSync ==
    Started =>
        /\ StartComplete
        /\ InOrder(trace, <<LoadStep, CallbackStep, SyncStep, AddressStep, ApplyStep,
                            BootstrapStep, TimerStep>>)

\* C16 amended: load, Friend Directory Sync, callbacks, own address, name and status
\* message, bootstrap, timer
C16_SyncBeforeCallbacks ==
    Started =>
        /\ StartComplete
        /\ InOrder(trace, <<LoadStep, SyncStep, CallbackStep, AddressStep, ApplyStep,
                            BootstrapStep, TimerStep>>)

\* a start loaded a blob, found a friend in it and bootstrapped from a server
C16_Witness ==
    /\ Started
    /\ CountOf(trace, LoadStep) = 1
    /\ CountOf(trace, {"friendAdded"}) >= 1
    /\ CountOf(trace, BootstrapStep) >= 1

\* the entries of a tick's trace, by the step of Core::process they belong to
DoStep == {"tox_do"}

NotifyStep ==
    {"friendRequestReceived", "friendMessageReceived", "friendUsernameChanged",
     "friendTypingChanged", "friendStatusMessageChanged", "friendStatusChanged",
     "actionReceived", "tox_get_last_online", "friendLastSeenChanged"}

ConnectivityStep == {"tox_isconnected", "connected", "disconnected"}

IntervalStep == {"tox_do_interval"}

RearmStep == {"start"}

\* what a tick that ran to its end has done: tox_do once and first, the engine's
\* notifications inside it, the connectivity check (one or two tox_isconnected), then
\* tox_do_interval once and the timer started once, last; the timer is armed
TickShape ==
    Ticked =>
        /\ trace[1] = Call("tox_do", tox, -1, "")
        /\ CountOf(trace, DoStep) = 1
        /\ CountOf(trace, {"tox_isconnected"}) \in {1, 2}
        /\ CountOf(trace, IntervalStep) = 1
        /\ CountOf(trace, RearmStep) = 1
        /\ trace[Len(trace) - 1] = Call("tox_do_interval", tox, -1, "")
        /\ trace[Len(trace)] = TimerStart
        /\ InOrder(trace, <<DoStep, NotifyStep, ConnectivityStep, IntervalStep, RearmStep>>)
        /\ timerActive

\* a tick runs only from the event loop, no handler being under way, and only if the timer
\* is armed
TickFromEventLoop == (op'.name = "process" /\ pc' = "done") => (pc = "idle" /\ timerActive)

\* an armed timer is disarmed only by the destructor or by the death of the process
ArmedUntilShutdown == (timerActive /\ ~timerActive') => (destroyed' \/ crashed')

\* C17: every tick is tox_do, connectivity check, tox_do_interval and one timer start, in
\* this order; ticks run one at a time from the event loop; the timer stays armed from the
\* first successful start until the destructor (or the death of the process), and until
\* then ticks keep coming
C17_TickLoop ==
    /\ []TickShape
    /\ [][TickFromEventLoop]_vars
    /\ [][ArmedUntilShutdown]_vars
    /\ \/ <>(destroyed \/ crashed)
       \/ <>[](~timerActive)
       \/ []<><<Process>>_vars

\* a tick delivered a notification, ran to its end and armed the timer again
C17_Witness ==
    /\ Ticked
    /\ Len(op.batch) >= 1
    /\ timerActive
    /\ trace[Len(trace)] = TimerStart

\* what start does after tox_new when there is nothing to load
FreshStart(h, servers) ==
    RegisterCallbacks(h)
        \o <<Call("tox_get_address", h, -1, ""), Emit("friendAddressGenerated", -1, ""),
             Call("tox_set_name", h, -1, ""), Call("tox_set_status_message", h, -1, "")>>
        \o [i \in 1 .. servers |-> Call("tox_bootstrap_from_address", h, -1, "")]
        \o <<Call("tox_do_interval", h, -1, ""), TimerStart>>

\* C19: a start that gets an engine and finds no configuration file loads nothing and runs
\* no Friend Directory Sync (no friend event), and goes on as any successful start: callbacks,
\* own address, name and status message, bootstrap, timer; the engine holds no friend and the
\* timer is armed. On any successful start the sync runs exactly if the file is there and
\* could be opened
C19_MissingFileIsNoError ==
    Started =>
        /\ ~configFile.exists =>
              /\ NotNewCalls(trace) = FreshStart(tox, op.servers)
              /\ CountOf(trace, LoadStep \cup SyncStep) = 0
              /\ EmittedNames(trace) = <<"friendAddressGenerated">>
              /\ friendCount = 0
              /\ timerActive
        /\ CountOf(trace, {"tox_count_friendlist"}) =
               IF configFile.exists /\ op.openOk THEN 1 ELSE 0

\* a start found no configuration file, bootstrapped from a server and armed the timer
C19_Witness ==
    /\ Started
    /\ ~configFile.exists
    /\ op.servers >= 1
    /\ timerActive
    /\ trace[Len(trace)] = TimerStart

\* C20: a destructor whose save cannot have the directory or cannot open the file makes no
\* tox_size or tox_save call and writes nothing, leaves data.tox as it was, and goes on to
\* release the engine
C20_FailedSaveSkipped ==
    [][(op'.name = "~Core" /\ pc' = "done" /\ tox # nullptr /\ (~op'.dirOk \/ ~op'.openOk)) =>
           /\ trace' = <<Call("tox_kill", tox, -1, "")>>
           /\ configFile' = configFile
           /\ destroyed'
           /\ ~crashed']_vars

\* the destructor could not open the file for writing: an earlier data.tox is still there
C20_Witness ==
    /\ Destroyed
    /\ tox # nullptr
    /\ op.dirOk
    /\ ~op.openOk
    /\ configFile.exists
    /\ trace = <<Call("tox_kill", tox, -1, "")>>

====
